---- MODULE Spec2Model ----
(***************************************************************************)
(* A model of execexam's extraction engine (src/execexam/extract.py).      *)
(*                                                                         *)
(* Text is modelled as Python models it: a string is a sequence of         *)
(* characters (one-character TLA+ strings), and the string methods the     *)
(* code uses (in, startswith, split, strip, replace) and its two regular   *)
(* expressions are operators over such sequences.  The inputs (the JSON    *)
(* report, the failing code, the files and the importable test module) are *)
(* drawn in Init from bounded sets; every public function of the module is *)
(* one action that applies the function to the inputs.                     *)
(***************************************************************************)
EXTENDS Integers, Sequences, FiniteSets, TLC

(***************************************************************************)
(* Python's str methods over sequences of characters                       *)
(***************************************************************************)

\* the least element of a non-empty set of integers
SetMin(S) == CHOOSE x \in S : \A y \in S : x <= y

\* str.find(p) + 1: the least position at which p occurs in s, 0 if none
Find(s, p) ==
    LET idx == { j \in 1..(Len(s) - Len(p) + 1) : SubSeq(s, j, j + Len(p) - 1) = p }
    IN  IF idx = {} THEN 0 ELSE SetMin(idx)

\* p in s
Contains(s, p) == Find(s, p) # 0

\* s.startswith(p)
StartsWith(s, p) == Len(s) >= Len(p) /\ SubSeq(s, 1, Len(p)) = p

\* s[n:]
DropFirst(s, n) == SubSeq(s, n + 1, Len(s))

\* s.split(sep): every non-overlapping occurrence of sep, left to right
RECURSIVE Split(_, _)
Split(s, sep) ==
    LET j == Find(s, sep)
    IN  IF j = 0 THEN << s >>
        ELSE << SubSeq(s, 1, j - 1) >> \o Split(DropFirst(s, j + Len(sep) - 1), sep)

\* s.split(sep, 1): at most one split, at the first occurrence of sep
SplitOnce(s, sep) ==
    LET j == Find(s, sep)
    IN  IF j = 0 THEN << s >>
        ELSE << SubSeq(s, 1, j - 1), DropFirst(s, j + Len(sep) - 1) >>

\* s.strip(chars)
RECURSIVE LStrip(_, _)
LStrip(s, chars) ==
    IF s # << >> /\ Head(s) \in chars THEN LStrip(Tail(s), chars) ELSE s

RECURSIVE RStrip(_, _)
RStrip(s, chars) ==
    IF s # << >> /\ s[Len(s)] \in chars THEN RStrip(SubSeq(s, 1, Len(s) - 1), chars) ELSE s

Strip(s, chars) == RStrip(LStrip(s, chars), chars)

\* the characters str.strip() removes when called without an argument
Whitespace == { " ", "\n", "\t" }

\* s.replace(old, new)
RECURSIVE Replace(_, _, _)
Replace(s, old, new) ==
    LET j == Find(s, old)
    IN  IF j = 0 THEN s
        ELSE SubSeq(s, 1, j - 1) \o new \o Replace(DropFirst(s, j + Len(old) - 1), old, new)

\* sep.join(parts)
RECURSIVE Join(_, _)
Join(parts, sep) ==
    IF parts = << >> THEN << >>
    ELSE IF Len(parts) = 1 THEN parts[1]
    ELSE parts[1] \o sep \o Join(Tail(parts), sep)

\* the last element of a non-empty sequence: parts[-1]
Last(parts) == parts[Len(parts)]

\* x in list
InList(x, list) == \E i \in 1..Len(list) : list[i] = x

\* the characters the regular expressions' \w matches (ASCII)
WordChars ==
    { "a", "b", "c", "d", "e", "f", "g", "h", "i", "j", "k", "l", "m", "n", "o", "p",
      "q", "r", "s", "t", "u", "v", "w", "x", "y", "z", "A", "B", "C", "D", "E", "F",
      "G", "H", "I", "J", "K", "L", "M", "N", "O", "P", "Q", "R", "S", "T", "U", "V",
      "W", "X", "Y", "Z", "0", "1", "2", "3", "4", "5", "6", "7", "8", "9", "_" }

\* the length of the maximal run of \w characters at the start of s
RECURSIVE WordRun(_)
WordRun(s) == IF s # << >> /\ Head(s) \in WordChars THEN 1 + WordRun(Tail(s)) ELSE 0

\* the length of the maximal run of \s characters at the start of s
RECURSIVE SpaceRun(_)
SpaceRun(s) == IF s # << >> /\ Head(s) \in Whitespace THEN 1 + SpaceRun(Tail(s)) ELSE 0

\* re.findall(r"(\w+)\(", s): the maximal words directly followed by "("
RECURSIVE FindCalls(_)
FindCalls(s) ==
    IF s = << >> THEN << >>
    ELSE LET n == WordRun(s)
         IN  IF n = 0 THEN FindCalls(Tail(s))
             ELSE IF n < Len(s) /\ s[n + 1] = "("
                  THEN << SubSeq(s, 1, n) >> \o FindCalls(DropFirst(s, n + 1))
                  ELSE FindCalls(DropFirst(s, n))

\* re.findall(r"\b(\w+)\s*\(", s): the maximal words followed by optional
\* whitespace and "("
RECURSIVE FindCallsSpaced(_)
FindCallsSpaced(s) ==
    IF s = << >> THEN << >>
    ELSE LET n == WordRun(s)
             k == SpaceRun(DropFirst(s, n))
         IN  IF n = 0 THEN FindCallsSpaced(Tail(s))
             ELSE IF n + k < Len(s) /\ s[n + k + 1] = "("
                  THEN << SubSeq(s, 1, n) >> \o FindCallsSpaced(DropFirst(s, n + k + 1))
                  ELSE FindCallsSpaced(DropFirst(s, n))

(***************************************************************************)
(* The string literals of extract.py                                       *)
(***************************************************************************)

S_assert == << "a", "s", "s", "e", "r", "t" >>
S_test_ == << "t", "e", "s", "t", "_" >>
S_coloncolon == << ":", ":" >>
S_slash == << "/" >>
S_dot == << "." >>
S_dot_py == << ".", "p", "y" >>
S_import == << "i", "m", "p", "o", "r", "t" >>
S_from == << "f", "r", "o", "m" >>
S_pytest == << "p", "y", "t", "e", "s", "t" >>
S_pytest_py == << "p", "y", "t", "e", "s", "t", ".", "p", "y" >>
S_Error_reading_file == << "E", "r", "r", "o", "r", " ", "r", "e", "a", "d", "i", "n", "g", " ", "f", "i", "l", "e", " " >>
S_colon_space == << ":", " " >>
S_File_space == << "F", "i", "l", "e", " " >>
S_comma_line == << ",", " ", "l", "i", "n", "e", " " >>
S_E_marker == << "E", " ", " ", " " >>
S_eqeq == << "=", "=" >>
S_newline == << "\n" >>
S_File_not_found == << "F", "i", "l", "e", " ", "n", "o", "t", " ", "f", "o", "u", "n", "d" >>
S_File_not_found_colon == << "F", "i", "l", "e", " ", "n", "o", "t", " ", "f", "o", "u", "n", "d", ":", " " >>
S_Error_colon == << "E", "r", "r", "o", "r", ":", " " >>
S_No_Traceback_Found == << "N", "o", " ", "T", "r", "a", "c", "e", "b", "a", "c", "k", " ", "F", "o", "u", "n", "d" >>
S_No_Functions_Found == << "N", "o", " ", "F", "u", "n", "c", "t", "i", "o", "n", "s", " ", "F", "o", "u", "n", "d" >>

S_Name_label == << " ", " ", "N", "a", "m", "e", ":", " " >>
S_Path_label == << " ", " ", "P", "a", "t", "h", ":", " " >>
S_Line_number_label == << " ", " ", "L", "i", "n", "e", " ", "n", "u", "m", "b", "e", "r", ":", " " >>
S_Message_label == << " ", " ", "M", "e", "s", "s", "a", "g", "e", ":", " " >>
S_Details_label == << "D", "e", "t", "a", "i", "l", "s", ":", " " >>
S_comma_space == << ",", " " >>
S_space == << " " >>

\* the empty string
Empty == << >>

\* None, as the value of a diagnostic's expected_value and actual_value
None == << "None" >>

\* str(e) of the OSError that open() raises: text the operating system words,
\* kept as one opaque character
StrOfOSError == << "<strerror>" >>

\* the characters strip("() ") removes
ParenSpace == { "(", ")", " " }

(***************************************************************************)
(* The environment: the files open() can read and the modules              *)
(* importlib.import_module can import.  A world w is a record              *)
(*   files   : path -> [readable, text, parses, defs], a missing file      *)
(*             being a path outside the domain; defs lists the FunctionDef *)
(*             nodes of the file's syntax tree in ast.walk order, each     *)
(*             [name, lineno, end_lineno];                                 *)
(*   modules : dotted module name -> (function name -> source text), a     *)
(*             module that cannot be imported being outside the domain.    *)
(***************************************************************************)

\* Return values: [exc |-> "none", val |-> v] for a return of v, and
\* [exc |-> <exception class>, val |-> << >>] for a raised exception.
Return(v) == [exc |-> "none", val |-> v]
Raise(e) == [exc |-> e, val |-> << >>]

\* the filter of line 198 without the "assert" prefix
IgnoredName_OnlyTests(func_name) == StartsWith(func_name, S_test_)

\* src/execexam/extract.py:187 extract_tested_functions, the filter of line 198
IgnoredName(func_name) == StartsWith(func_name, S_assert) \/ StartsWith(func_name, S_test_)

\* extract_tested_functions: the set of the filtered call names, or, when that
\* set is empty, the failing code itself (a str)
extract_tested_functions(failing_test_code) ==
    LET function_calls == FindCalls(failing_test_code)
        tested_functions ==
            { function_calls[i] : i \in { j \in 1..Len(function_calls) :
                                              ~ IgnoredName(function_calls[j]) } }
    IN  IF tested_functions # {}
        THEN [is_set |-> TRUE, names |-> tested_functions, text |-> Empty]
        ELSE [is_set |-> FALSE, names |-> {}, text |-> failing_test_code]

\* The order in which "for func in tested_funcs" visits a value returned by
\* extract_tested_functions.  A str is visited character by character.  A set
\* of str is visited in hash order, which CPython randomises per process:
\* hash_order, an enumeration of every name the process may meet, stands for
\* the process's hash seed, and a set is visited in the order hash_order gives
\* its elements.
RECURSIVE Restrict(_, _)
Restrict(hash_order, S) ==
    IF hash_order = << >> THEN << >>
    ELSE (IF Head(hash_order) \in S THEN << Head(hash_order) >> ELSE << >>)
         \o Restrict(Tail(hash_order), S)

Visits(tested_funcs, hash_order) ==
    IF tested_funcs.is_set THEN Restrict(hash_order, tested_funcs.names)
    ELSE [i \in 1..Len(tested_funcs.text) |-> << tested_funcs.text[i] >>]

\* get_called_functions_from_test
get_called_functions_from_test(test_path, w) ==
    LET parts == Split(test_path, S_coloncolon)
    IN  IF Len(parts) # 2 THEN Raise("ValueError")
        ELSE LET module_name == Replace(Replace(parts[1], S_slash, S_dot), S_dot_py, Empty)
                 func_name == parts[2]
             IN  IF module_name \notin DOMAIN w.modules THEN Raise("ModuleNotFoundError")
                 ELSE IF func_name \notin DOMAIN w.modules[module_name]
                      THEN Raise("AttributeError")
                      ELSE Return(FindCallsSpaced(w.modules[module_name][func_name]))

\* function_exists_in_file: every exception (missing or unreadable file, syntax
\* error) is caught and answered False
function_exists_in_file(file_path, function_name, w) ==
    /\ file_path \in DOMAIN w.files
    /\ w.files[file_path].readable
    /\ w.files[file_path].parses
    /\ \E i \in 1..Len(w.files[file_path].defs) :
           w.files[file_path].defs[i].name = function_name

\* find_source_file, lines 246-254: the module a line of the test file imports
ImportedOf(line) ==
    LET imported0 == Strip(Last(Split(line, S_import)), Whitespace)
        imported1 == IF Contains(imported0, S_dot) THEN Last(Split(imported0, S_dot))
                     ELSE imported0
    IN  IF Contains(line, S_from)
        THEN Strip(Split(Last(Split(line, S_from)), S_import)[1], Whitespace)
        ELSE imported1

\* find_source_file, lines 245-262: the loop over the lines of the test file
RECURSIVE ScanImports(_, _, _)
ScanImports(lines, function, w) ==
    IF lines = << >> THEN Empty
    ELSE LET line == Head(lines)
             imported == ImportedOf(line)
             file_path == Replace(imported, S_dot, S_slash) \o S_dot_py
         IN  IF /\ Contains(line, S_import)
                /\ imported # S_pytest
                /\ file_path # S_pytest_py
                /\ function_exists_in_file(file_path, function, w)
             THEN file_path
             ELSE ScanImports(Tail(lines), function, w)

\* find_source_file: "for line in f" yields the lines of the file; the line
\* ends, which every use strips, are left out
find_source_file(test_path, function, w) ==
    LET test_file == Split(test_path, S_coloncolon)[1]
    IN  IF test_file \notin DOMAIN w.files \/ ~ w.files[test_file].readable
        THEN S_Error_reading_file \o test_file \o S_colon_space \o StrOfOSError
        ELSE ScanImports(Split(w.files[test_file].text, S_newline), function, w)

(***************************************************************************)
(* The report.  A test case is [nodeid, outcome, call]; call is            *)
(*   [present, longrepr, log, crash]: present says whether the case has a  *)
(*   "call" key; longrepr is [type, text, message, entries] with type      *)
(*   "absent" (no "longrepr" key), "str" (text), "dict" (the reprcrash     *)
(*   message and the reprentries) or "other" (any other JSON value); log   *)
(*   is [present, text]; crash is [present, lineno, message].              *)
(* A report is [is_none, keys, root, tests]: None, or a dict with the      *)
(* top-level keys `keys`.                                                  *)
(***************************************************************************)

Digit == << "0", "1", "2", "3", "4", "5", "6", "7", "8", "9" >>

\* str(n) of a natural number, as an f-string formats it
RECURSIVE IntToStr(_)
IntToStr(n) == IF n < 10 THEN << Digit[n + 1] >> ELSE IntToStr(n \div 10) \o << Digit[(n % 10) + 1] >>

\* eval(s), for the operands the inputs hold: a decimal integer literal
\* evaluates to its value (kept as its digits); a name that is not defined
\* (NameError) and text that is no expression (SyntaxError) raise
IsIntLiteral(s) ==
    /\ s # << >>
    /\ \A i \in 1..Len(s) : \E d \in 1..10 : Digit[d] = s[i]
    /\ (Len(s) = 1 \/ s[1] # "0")

Eval(s) == IF IsIntLiteral(s) THEN Return(s) ELSE Raise("Exception")

\* extract_tracebacks, lines 280-292: the diagnostic a failing case starts from
\* (its "variables" entry, an empty dict that nothing fills, is left out)
NewTracebackInfo(test_path) ==
    [type |-> "dict",
     test_path |-> test_path,
     source_file |-> Empty,
     tested_function |-> Empty,
     full_traceback |-> Empty,
     error_type |-> Empty,
     error_message |-> Empty,
     stack_trace |-> << >>,
     assertion_detail |-> Empty,
     expected_value |-> None,
     actual_value |-> None]

\* lines 326-330 and 376-381: func = ""; for func in tested_funcs: if func in
\* called_functions: tested_function = func; break.  order is the sequence in
\* which the loop visits tested_funcs.  After the loop func is the match, or
\* the last value visited, or "" when nothing was visited.
MatchTested(order, called_functions) ==
    LET hits == { i \in 1..Len(order) : InList(order[i], called_functions) }
    IN  IF hits # {}
        THEN [tested_function |-> order[SetMin(hits)], func |-> order[SetMin(hits)]]
        ELSE [tested_function |-> Empty,
              func |-> IF order = << >> THEN Empty ELSE order[Len(order)]]

\* process_string_longrepr, lines 356-359: the two evals; the first assigns
\* actual_value before the second runs, and an exception ends the try block
SetOperands(info, actual, expected) ==
    IF actual.exc # "none" THEN info
    ELSE IF expected.exc # "none" THEN [info EXCEPT !.actual_value = actual.val]
    ELSE [info EXCEPT !.actual_value = actual.val, !.expected_value = expected.val]

\* process_string_longrepr, line 355: actual, expected = expr.split("==", 1),
\* a ValueError when the split gives one part
EvalOperands(info, operands) ==
    IF Len(operands) # 2 THEN info
    ELSE SetOperands(info, Eval(Strip(operands[1], ParenSpace)),
                           Eval(Strip(operands[2], ParenSpace)))

\* process_string_longrepr, lines 350-361: the assertion details of one line
AssertionOfLine(line, info) ==
    IF ~ Contains(line, S_assert) THEN info
    ELSE IF ~ Contains(line, S_eqeq)
    THEN [info EXCEPT !.assertion_detail = Strip(line, Whitespace)]
    ELSE EvalOperands([info EXCEPT !.assertion_detail = Strip(line, Whitespace)],
                      SplitOnce(Strip(Last(Split(line, S_assert)), Whitespace), S_eqeq))

\* process_string_longrepr, lines 343-348: the error type and message
SetError(info, error_parts) ==
    IF Len(error_parts) > 1
    THEN [info EXCEPT !.error_type = error_parts[1], !.error_message = error_parts[2]]
    ELSE [info EXCEPT !.error_message = error_parts[1]]

\* process_string_longrepr, lines 336-348: the location or the error of one line
LocationOrErrorOfLine(line, info) ==
    IF Contains(line, S_File_space) /\ Contains(line, S_comma_line)
    THEN [info EXCEPT !.stack_trace = Append(@, Strip(line, Whitespace))]
    ELSE IF StartsWith(line, S_E_marker) /\ info.error_message = Empty
    THEN SetError(info, SplitOnce(DropFirst(line, 4), S_colon_space))
    ELSE info

\* process_string_longrepr, lines 335-361: the loop over the lines
RECURSIVE ScanLines(_, _)
ScanLines(lines, info) ==
    IF lines = << >> THEN info
    ELSE ScanLines(Tail(lines), AssertionOfLine(Head(lines), LocationOrErrorOfLine(Head(lines), info)))

\* lines 324-330 and 374-381: the match of the failing code's names with the
\* functions the test calls
ResolveTested(failing_code, hash_order, called_functions) ==
    MatchTested(Visits(extract_tested_functions(failing_code), hash_order), called_functions)

\* process_string_longrepr, lines 329-334: tested_function and source_file
SetSourceIfFound(info, source_file) ==
    IF source_file # Empty THEN [info EXCEPT !.source_file = source_file] ELSE info

StringResolved(info, test_path, m, w) ==
    SetSourceIfFound([info EXCEPT !.tested_function = m.tested_function],
                     find_source_file(test_path, m.func, w))

\* process_string_longrepr, from line 325 on, called_functions being the
\* outcome of line 324
StringAfterCalled(longrepr, traceback_info, test_path, failing_code, w, hash_order, called_functions) ==
    IF called_functions.exc # "none" THEN Raise(called_functions.exc)
    ELSE Return(ScanLines(Split(longrepr, S_newline),
                          StringResolved([traceback_info EXCEPT !.full_traceback = longrepr],
                                         test_path,
                                         ResolveTested(failing_code, hash_order, called_functions.val),
                                         w)))

\* process_string_longrepr
process_string_longrepr(longrepr, traceback_info, test_path, failing_code, w, hash_order) ==
    StringAfterCalled(longrepr, traceback_info, test_path, failing_code, w, hash_order,
                      get_called_functions_from_test(test_path, w))

\* process_dict_longrepr, lines 401-409: the stack trace of the entries; an
\* entry is [is_dict, has_loc, path, lineno]
RECURSIVE StackOfEntries(_)
StackOfEntries(entries) ==
    IF entries = << >> THEN << >>
    ELSE LET entry == Head(entries)
         IN  (IF entry.is_dict /\ entry.has_loc /\ entry.path # Empty /\ entry.lineno # 0
              THEN << S_File_space \o entry.path \o S_comma_line \o IntToStr(entry.lineno) >>
              ELSE << >>) \o StackOfEntries(Tail(entries))

\* process_dict_longrepr, lines 383-391: source_file, "File not found" when
\* find_source_file finds none
SetSourceOrDefault(info, source_file) ==
    [info EXCEPT !.source_file = IF source_file = Empty THEN S_File_not_found ELSE source_file]

DictResolved(info, test_path, m, w) ==
    SetSourceOrDefault([info EXCEPT !.tested_function = m.tested_function],
                       find_source_file(test_path, m.func, w))

\* process_dict_longrepr, lines 393-399: the error type and message
SetErrorOfMessage(info, message) ==
    IF Contains(message, S_colon_space)
    THEN SetError(info, SplitOnce(message, S_colon_space))
    ELSE [info EXCEPT !.error_message = message]

\* process_dict_longrepr, from line 376 on, called_functions being the outcome
\* of line 375
DictAfterCalled(longrepr, traceback_info, test_path, failing_code, w, hash_order, called_functions) ==
    IF called_functions.exc # "none" THEN Raise(called_functions.exc)
    ELSE Return([SetErrorOfMessage(
                     DictResolved(traceback_info, test_path,
                                  ResolveTested(failing_code, hash_order, called_functions.val), w),
                     longrepr.message)
                 EXCEPT !.stack_trace = @ \o StackOfEntries(longrepr.entries)])

\* process_dict_longrepr
process_dict_longrepr(longrepr, traceback_info, test_path, failing_code, w, hash_order) ==
    DictAfterCalled(longrepr, traceback_info, test_path, failing_code, w, hash_order,
                    get_called_functions_from_test(test_path, w))

\* extract_tracebacks, lines 304-306: "Ensure we have a full traceback"
WithLog(call, processed) ==
    IF processed.exc = "none" /\ processed.val.full_traceback = Empty /\ call.log.present
    THEN Return([processed.val EXCEPT !.full_traceback = call.log.text])
    ELSE processed

\* extract_tracebacks, lines 293-303: the dispatch on the type of longrepr
ProcessLongrepr(longrepr, traceback_info, test_path, failing_code, w, hash_order) ==
    IF longrepr.type = "str"
    THEN process_string_longrepr(longrepr.text, traceback_info, test_path, failing_code, w, hash_order)
    ELSE IF longrepr.type \in {"dict", "absent"}
    THEN process_dict_longrepr(longrepr, traceback_info, test_path, failing_code, w, hash_order)
    ELSE Return(traceback_info)

\* extract_tracebacks, lines 277-306: the diagnostic of one failing case, or
\* the exception its processing raises
TracebackOfTest(test, failing_code, w, hash_order) ==
    WithLog(test.call,
            ProcessLongrepr(test.call.longrepr, NewTracebackInfo(test.nodeid), test.nodeid,
                            failing_code, w, hash_order))

\* extract_tracebacks, lines 308-313: "Append if there is information"
HasInformation(traceback_info) ==
    \/ traceback_info.full_traceback # Empty
    \/ traceback_info.error_message # Empty
    \/ traceback_info.stack_trace # << >>

\* line 277 with an outcome too many
IsSelected_AlsoPassed(test) == test.outcome \in {"failed", "error", "passed"}

\* extract_tracebacks, line 277
IsSelected(test) == test.outcome \in {"failed", "error"}

\* extract_tracebacks, lines 276-314: the loop over the tests from index i, acc
\* being traceback_info_list so far and idx the report index of the case each
\* element of acc was built from (a history of the loop, not a value the code
\* returns).  An exception ends the loop and the call.
RECURSIVE TracebackLoop(_, _, _, _, _, _, _)

\* lines 307-313: the case at index i, processed with outcome r
TracebackStep(tests, i, acc, idx, failing_code, w, hash_order, r) ==
    IF r.exc # "none" THEN [exc |-> r.exc, val |-> << >>, idx |-> << >>]
    ELSE IF HasInformation(r.val)
    THEN TracebackLoop(tests, i + 1, Append(acc, r.val), Append(idx, i), failing_code, w, hash_order)
    ELSE TracebackLoop(tests, i + 1, acc, idx, failing_code, w, hash_order)

TracebackLoop(tests, i, acc, idx, failing_code, w, hash_order) ==
    IF i > Len(tests) THEN [exc |-> "none", val |-> acc, idx |-> idx]
    ELSE IF ~ IsSelected(tests[i])
    THEN TracebackLoop(tests, i + 1, acc, idx, failing_code, w, hash_order)
    ELSE TracebackStep(tests, i, acc, idx, failing_code, w, hash_order,
                       TracebackOfTest(tests[i], failing_code, w, hash_order))

\* "not json_report": None or the empty dict
ReportIsFalsy(json_report) == json_report.is_none \/ json_report.keys = {}

\* json_report.get("tests", [])
TestsOf(json_report) == IF "tests" \in json_report.keys THEN json_report.tests ELSE << >>

\* extract_tracebacks
extract_tracebacks(json_report, failing_code, w, hash_order) ==
    IF ReportIsFalsy(json_report)
    THEN [exc |-> "none",
          val |-> << [type |-> "str", text |-> S_No_Traceback_Found] >>,
          idx |-> << 0 >>]
    ELSE TracebackLoop(TestsOf(json_report), 1, << >>, << >>, failing_code, w, hash_order)

\* the line boundaries of str.splitlines() that a file read in text mode can
\* hold: the line feed and the form feed (the vertical tab and the separators
\* of Unicode are boundaries as well; "\r" is translated by open())
LineBoundaries == { "\n", "\f" }

\* str.splitlines(): the lines without their line ends
RECURSIVE SplitLines(_)
SplitLines(text) ==
    LET hits == { i \in 1..Len(text) : text[i] \in LineBoundaries }
    IN  IF text = << >> THEN << >>
        ELSE IF hits = {} THEN << text >>
        ELSE << SubSeq(text, 1, SetMin(hits) - 1) >>
             \o SplitLines(SubSeq(text, SetMin(hits) + 1, Len(text)))

\* extract_function_code_from_traceback, lines 430-444: the first FunctionDef
\* in ast.walk order named tested_function gives the lines to append; no such
\* node appends nothing
FunctionLines(file, tested_function) ==
    LET hits == { i \in 1..Len(file.defs) : file.defs[i].name = tested_function }
        node == file.defs[SetMin(hits)]
        lines == SubSeq(SplitLines(file.text), node.lineno, node.end_lineno)
    IN  IF hits = {} THEN << >>
        ELSE << [i \in 1..Len(lines) |-> Strip(lines[i], Whitespace)] >>

\* extract_function_code_from_traceback, lines 420-448: what one element of
\* the list appends to functions
FunctionsOfTest(test, w) ==
    LET source_file == test.source_file
        tested_function == test.tested_function
    IN  IF source_file = Empty \/ tested_function = Empty THEN << >>
        ELSE IF source_file \notin DOMAIN w.files
        THEN << << S_File_not_found_colon \o source_file >> >>
        ELSE IF ~ w.files[source_file].readable \/ ~ w.files[source_file].parses
        THEN << << S_Error_colon \o StrOfOSError >> >>
        ELSE FunctionLines(w.files[source_file], tested_function)

\* extract_function_code_from_traceback, lines 419-449: the loop; test.get of
\* an element that is a str and not a dict raises AttributeError
RECURSIVE FunctionsLoop(_, _, _)
FunctionsLoop(list, functions, w) ==
    IF list = << >> THEN Return(functions)
    ELSE IF Head(list).type # "dict" THEN Raise("AttributeError")
    ELSE FunctionsLoop(Tail(list), functions \o FunctionsOfTest(Head(list), w), w)

\* extract_function_code_from_traceback
extract_function_code_from_traceback(traceback_info_list, w) ==
    IF traceback_info_list = << >> THEN Return(<< << S_No_Functions_Found >> >>)
    ELSE FunctionsLoop(traceback_info_list, << >>, w)

\* is_failing_test_details_empty: the string is the lone newline
is_failing_test_details_empty(details) == details = S_newline

\* extract_details: "Details: " and the "<value> <key>" pairs, or "" for none
extract_details(details) ==
    IF details = << >> THEN Empty
    ELSE S_Details_label \o
         Join([i \in 1..Len(details) |-> IntToStr(details[i].value) \o S_space \o details[i].key],
              S_comma_space)

\* extract_test_run_details: details["summary"] raises KeyError without the key
extract_test_run_details(details) ==
    IF details.is_none THEN Raise("TypeError")
    ELSE IF "summary" \notin details.keys THEN Raise("KeyError")
    ELSE Return(extract_details(details.summary))

\* convert.path_to_string, a module that is not among the sources: the text
\* it returns for a path is kept as one opaque character
path_to_string(path, levels) == << "<path>" >>

\* the path of the test file without the root of the report
JoinPath_NoRoot(root, part) == part

\* Path(root) / part, for a root without a trailing "/" and a relative part
JoinPath(root, part) ==
    IF StartsWith(part, S_slash) THEN part
    ELSE IF root = Empty THEN part
    ELSE root \o S_slash \o part

\* extract_failing_test_details, lines 114-153: the loop over the tests; acc is
\* [str, paths] so far
RECURSIVE FailingLoop(_, _, _)
FailingLoop(details, i, acc) ==
    IF i > Len(details.tests) THEN [exc |-> "none", str |-> acc.str, paths |-> acc.paths]
    ELSE LET test == details.tests[i]
             failing_test_nodeid_split == Split(test.nodeid, S_coloncolon)
             failing_test_path == JoinPath(details.root, failing_test_nodeid_split[1])
             failing_test_name == Last(failing_test_nodeid_split)
             entry == [test_name |-> failing_test_name, test_path |-> failing_test_path]
             text == S_Name_label \o test.nodeid \o S_newline
                     \o S_Path_label \o path_to_string(failing_test_path, 4) \o S_newline
                     \o S_Line_number_label \o IntToStr(test.call.crash.lineno) \o S_newline
                     \o S_Message_label \o test.call.crash.message \o S_newline
         IN  IF test.outcome # "failed" THEN FailingLoop(details, i + 1, acc)
             ELSE IF ~ test.call.present \/ ~ test.call.crash.present
                     \/ "root" \notin details.keys
             THEN [exc |-> "KeyError", str |-> Empty, paths |-> << >>]
             ELSE FailingLoop(details, i + 1,
                              [str |-> acc.str \o text, paths |-> Append(acc.paths, entry)])

\* extract_failing_test_details
extract_failing_test_details(details) ==
    IF details.is_none THEN [exc |-> "TypeError", str |-> Empty, paths |-> << >>]
    ELSE IF "tests" \notin details.keys THEN [exc |-> "KeyError", str |-> Empty, paths |-> << >>]
    ELSE FailingLoop(details, 1, [str |-> S_newline, paths |-> << >>])

(***************************************************************************)
(* The inputs: texts, files, modules and reports                           *)
(***************************************************************************)

N_f == << "f" >>
N_g == << "g" >>
N_h == << "h" >>
N_k == << "k" >>
N_t == << "t" >>
N_test_a == << "t", "e", "s", "t", "_", "a" >>
N_test_b == << "t", "e", "s", "t", "_", "b" >>
P_t_py == << "t", ".", "p", "y" >>
P_m_py == << "m", ".", "p", "y" >>
P_n_py == << "n", ".", "p", "y" >>
P_bad_py == << "b", "a", "d", ".", "p", "y" >>
P_locked_py == << "l", "o", "c", "k", "e", "d", ".", "p", "y" >>
P_gone_py == << "g", "o", "n", "e", ".", "p", "y" >>
P_paged_py == << "p", "a", "g", "e", "d", ".", "p", "y" >>
P_pkg_n_py == << "p", "k", "g", "/", "n", ".", "p", "y" >>
P_root == << "/", "r" >>
TestFileText == << "i", "m", "p", "o", "r", "t", " ", "p", "y", "t", "e", "s", "t", "\n", "f", "r", "o", "m", " ", "m", " ", "i", "m", "p", "o", "r", "t", " ", "f", "\n", "i", "m", "p", "o", "r", "t", " ", "n", "\n" >>
MFileText == << "d", "e", "f", " ", "f", "(", "x", ")", ":", "\n", " ", " ", " ", " ", "r", "e", "t", "u", "r", "n", " ", "x", "\n", "\n", "d", "e", "f", " ", "k", "(", ")", ":", "\n", " ", " ", " ", " ", "p", "a", "s", "s", "\n" >>
NFileText == << "d", "e", "f", " ", "g", "(", "y", ")", ":", "\n", " ", " ", "r", "e", "t", "u", "r", "n", " ", "y", "\n" >>
PagedFileText == << "X", " ", "=", " ", "1", "\n", "\f", "\n", "d", "e", "f", " ", "f", "(", "x", ")", ":", "\n", " ", " ", " ", " ", "r", "e", "t", "u", "r", "n", " ", "x", "\n" >>
PkgNFileText == << "d", "e", "f", " ", "g", "(", "y", ")", ":", "\n", " ", " ", " ", " ", "r", "e", "t", "u", "r", "n", " ", "y", "\n", "\n", "d", "e", "f", " ", "h", "(", "z", ")", ":", "\n", " ", " ", " ", " ", "r", "e", "t", "u", "r", "n", " ", "z", "\n" >>
Import_pytest == << "i", "m", "p", "o", "r", "t", " ", "p", "y", "t", "e", "s", "t" >>
Import_from_m == << "f", "r", "o", "m", " ", "m", " ", "i", "m", "p", "o", "r", "t", " ", "f" >>
Import_n == << "i", "m", "p", "o", "r", "t", " ", "n" >>
Import_pkg_n == << "i", "m", "p", "o", "r", "t", " ", "p", "k", "g", ".", "n" >>
Import_from_pkg_n == << "f", "r", "o", "m", " ", "p", "k", "g", ".", "n", " ", "i", "m", "p", "o", "r", "t", " ", "h" >>
TestASource == << "d", "e", "f", " ", "t", "e", "s", "t", "_", "a", "(", ")", ":", "\n", " ", " ", " ", " ", "a", "s", "s", "e", "r", "t", " ", "f", "(", "1", ")", " ", "=", "=", " ", "2", "\n" >>
TestBSource == << "d", "e", "f", " ", "t", "e", "s", "t", "_", "b", "(", ")", ":", "\n", " ", " ", " ", " ", "x", " ", "=", " ", "g", " ", "(", "f", "(", "2", ")", ")", "\n", " ", " ", " ", " ", "a", "s", "s", "e", "r", "t", "_", "e", "q", "(", "x", ",", " ", "3", ")", "\n" >>
Id_test_a == << "t", ".", "p", "y", ":", ":", "t", "e", "s", "t", "_", "a" >>
Id_test_b == << "t", ".", "p", "y", ":", ":", "t", "e", "s", "t", "_", "b" >>
Id_class_test == << "t", ".", "p", "y", ":", ":", "C", ":", ":", "t", "e", "s", "t", "_", "a" >>
Code_f == << "f", "(", "1", ")" >>
Code_g == << "g", "(", "2", ")" >>
Code_h == << "h", "(", "3", ")" >>
Code_assert_eq == << "a", "s", "s", "e", "r", "t", "_", "e", "q", "(", "x", ")" >>
Code_test_h == << "t", "e", "s", "t", "_", "h", "(", ")" >>
Code_no_call == << "x", " ", "=", " ", "f" >>
Line_assertion_error == << "E", " ", " ", " ", "A", "s", "s", "e", "r", "t", "i", "o", "n", "E", "r", "r", "o", "r", ":", " ", "a", "s", "s", "e", "r", "t", " ", "3", " ", "=", "=", " ", "4" >>
Line_boom == << "E", " ", " ", " ", "b", "o", "o", "m" >>
Line_assert_call == << " ", " ", " ", " ", "a", "s", "s", "e", "r", "t", " ", "f", "(", "1", ")", " ", "=", "=", " ", "2" >>
Line_assert_name == << "E", " ", " ", " ", "a", "s", "s", "e", "r", "t", " ", "3", " ", "=", "=", " ", "x" >>
Line_location == << " ", " ", "F", "i", "l", "e", " ", "t", ".", "p", "y", ",", " ", "l", "i", "n", "e", " ", "3", ",", " ", "i", "n", " ", "t", "e", "s", "t", "_", "a" >>
Line_error_with_location == << "E", " ", " ", " ", "O", "S", "E", "r", "r", "o", "r", ":", " ", "F", "i", "l", "e", " ", "x", ",", " ", "l", "i", "n", "e", " ", "3" >>
Line_empty_message == << "E", " ", " ", " ", "K", "e", "y", "E", "r", "r", "o", "r", ":", " " >>
Line_where == << "E", " ", " ", " ", " ", "+", " ", " ", "w", "h", "e", "r", "e", " ", "3", " ", "=", " ", "f", "(", "1", ")" >>
Msg_assertion_error == << "A", "s", "s", "e", "r", "t", "i", "o", "n", "E", "r", "r", "o", "r", ":", " ", "a", "s", "s", "e", "r", "t", " ", "3", " ", "=", "=", " ", "4" >>
Msg_boom == << "b", "o", "o", "m" >>
Msg_assert_name == << "a", "s", "s", "e", "r", "t", " ", "3", " ", "=", "=", " ", "x" >>
Msg_error_with_location == << "O", "S", "E", "r", "r", "o", "r", ":", " ", "F", "i", "l", "e", " ", "x", ",", " ", "l", "i", "n", "e", " ", "3" >>
Msg_empty_message == << "K", "e", "y", "E", "r", "r", "o", "r", ":", " " >>
Msg_value_error == << "V", "a", "l", "u", "e", "E", "r", "r", "o", "r", ":", " ", "b", "a", "d" >>
LogText == << "l", "o", "g" >>

\* the bounds of the inputs
MaxTests == 2
MaxLines == 2
MaxPieces == 2
MaxDiagnostics == 2
MaxImports == 2
MaxEntries == 2

\* every sequence of at most n elements of S
SeqsUpTo(S, n) == UNION { [1..k -> S] : k \in 0..n }

\* a file of the project: whether open() can read it, its text, whether
\* ast.parse accepts it, and its FunctionDef nodes in ast.walk order with the
\* lineno and end_lineno the parser gives them (it counts line feeds only)
File(readable, text, parses, defs) ==
    [readable |-> readable, text |-> text, parses |-> parses, defs |-> defs]

Def(name, lineno, end_lineno) == [name |-> name, lineno |-> lineno, end_lineno |-> end_lineno]

TestFile == File(TRUE, TestFileText, TRUE, << Def(N_test_a, 1, 2), Def(N_test_b, 4, 6) >>)

\* the test module t, as import_module("t") gives it
TestModule == (N_test_a :> TestASource) @@ (N_test_b :> TestBSource)

NoModules == [name \in {} |-> << >>]

\* the project as the tests ran on it, seen from its root directory
WorldOk ==
    [files |-> (P_t_py :> TestFile)
               @@ (P_m_py :> File(TRUE, MFileText, TRUE, << Def(N_f, 1, 2), Def(N_k, 4, 5) >>))
               @@ (P_n_py :> File(TRUE, NFileText, TRUE, << Def(N_g, 1, 2) >>))
               @@ (P_paged_py :> File(TRUE, PagedFileText, TRUE, << Def(N_f, 3, 4) >>))
               @@ (P_pkg_n_py :> File(TRUE, PkgNFileText, TRUE, << Def(N_g, 1, 2), Def(N_h, 4, 5) >>))
               @@ (P_bad_py :> File(TRUE, Code_no_call \o S_eqeq, FALSE, << >>))
               @@ (P_locked_py :> File(FALSE, Empty, FALSE, << >>)),
     modules |-> (N_t :> TestModule)]

\* the test module cannot be imported (it is not on sys.path)
WorldNoModule == [WorldOk EXCEPT !.modules = NoModules]

\* the test file cannot be opened (the working directory is not the root)
WorldNoTestFile ==
    [files |-> (P_m_py :> WorldOk.files[P_m_py]), modules |-> WorldOk.modules]

\* no imported file defines f or g
WorldNoDefinition ==
    [files |-> (P_t_py :> TestFile)
               @@ (P_m_py :> File(TRUE, MFileText, TRUE, << Def(N_k, 4, 5) >>)),
     modules |-> WorldOk.modules]

\* the import lines of a test file
ImportLines ==
    { Import_pytest, Import_from_m, Import_n, Import_pkg_n, Import_from_pkg_n }

\* the project with a test file of these lines
WorldWithImports(lines) ==
    [WorldOk EXCEPT !.files[P_t_py].text = Join(lines, S_newline) \o S_newline]

\* the test file exists and cannot be read
WorldLockedTestFile == [WorldOk EXCEPT !.files[P_t_py].readable = FALSE]

LookupWorlds ==
    { WorldWithImports(lines) : lines \in SeqsUpTo(ImportLines, MaxImports) }
    \cup { WorldNoTestFile, WorldLockedTestFile }

Worlds == { WorldOk, WorldNoModule, WorldNoTestFile, WorldNoDefinition }

\* the parts of a test case
NoLongrepr == [type |-> "absent", text |-> Empty, message |-> Empty, entries |-> << >>]
StrLongrepr(text) == [type |-> "str", text |-> text, message |-> Empty, entries |-> << >>]
DictLongrepr(message, entries) ==
    [type |-> "dict", text |-> Empty, message |-> message, entries |-> entries]
OtherLongrepr == [type |-> "other", text |-> Empty, message |-> Empty, entries |-> << >>]
Entry(path, lineno) == [is_dict |-> TRUE, has_loc |-> TRUE, path |-> path, lineno |-> lineno]
NoLog == [present |-> FALSE, text |-> Empty]
Log(text) == [present |-> TRUE, text |-> text]
Crash(lineno, message) == [present |-> TRUE, lineno |-> lineno, message |-> message]
NoCrash == [present |-> FALSE, lineno |-> 0, message |-> Empty]
Call(longrepr, log, crash) ==
    [present |-> TRUE, longrepr |-> longrepr, log |-> log, crash |-> crash]
NoCall == [present |-> FALSE, longrepr |-> NoLongrepr, log |-> NoLog, crash |-> NoCrash]
Test(nodeid, outcome, call) == [nodeid |-> nodeid, outcome |-> outcome, call |-> call]

Outcomes == { "passed", "failed", "error", "skipped" }

\* the summary of a report: the number of tests of each outcome that occurs
CountOf(tests, outcome) == Cardinality({ i \in 1..Len(tests) : tests[i].outcome = outcome })

SummaryOf(tests) ==
    LET order == << "passed", "failed", "error", "skipped" >>
        F[i \in 0..4] ==
            IF i = 0 THEN << >>
            ELSE F[i - 1] \o (IF CountOf(tests, order[i]) > 0
                              THEN << [key |-> order[i], value |-> CountOf(tests, order[i])] >>
                              ELSE << >>)
    IN  F[4]

ReportKeys == { "tests", "root", "summary" }

\* a report with the top-level keys `keys`
Report(keys, tests) ==
    [is_none |-> FALSE, keys |-> keys, root |-> P_root,
     tests |-> IF "tests" \in keys THEN tests ELSE << >>,
     summary |-> SummaryOf(tests)]

NoReport == [is_none |-> TRUE, keys |-> {}, root |-> Empty, tests |-> << >>, summary |-> << >>]

\* the shapes of a call result the reports hold: a text traceback, a
\* structured traceback, no call at all (the case failed in its setup) and a
\* text traceback of a test method of a class
CallShapes ==
    { << Id_test_a, Call(StrLongrepr(Line_assertion_error), NoLog, Crash(3, Msg_assertion_error)) >>,
      << Id_test_b, Call(DictLongrepr(Msg_value_error, << Entry(P_t_py, 5) >>), NoLog,
                         Crash(5, Msg_value_error)) >>,
      << Id_test_b, NoCall >>,
      << Id_class_test, Call(StrLongrepr(Line_boom), NoLog, Crash(3, Msg_boom)) >> }

\* further shapes: a log without a traceback, a structured traceback without
\* crash message and entries, with and without a log, and a traceback that is
\* neither text nor structured
MoreCallShapes ==
    { << Id_test_a, Call(NoLongrepr, Log(LogText), NoCrash) >>,
      << Id_test_a, Call(DictLongrepr(Empty, << >>), NoLog, Crash(3, Empty)) >>,
      << Id_test_a, Call(DictLongrepr(Empty, << >>), Log(LogText), Crash(3, Empty)) >>,
      << Id_test_a, Call(OtherLongrepr, NoLog, Crash(3, Msg_boom)) >> }

ReportCases == { Test(c[1], o, c[2]) : c \in CallShapes, o \in Outcomes }

MoreReportCases == { Test(c[1], o, c[2]) : c \in CallShapes \cup MoreCallShapes, o \in Outcomes }

\* the lines of a text traceback, and the crash messages of a structured one
TracebackLines ==
    { Line_assertion_error, Line_boom, Line_assert_call, Line_assert_name, Line_location,
      Line_error_with_location, Line_empty_message, Line_where }

CrashMessages ==
    { Msg_assertion_error, Msg_boom, Msg_assert_name, Msg_error_with_location,
      Msg_empty_message, Empty }

\* the location entries of a structured traceback: a path and a line number,
\* among them the line number 0 and the empty path
LocationEntries == { Entry(P_t_py, 3), Entry(P_m_py, 0), Entry(Empty, 5) }

\* the statements of the failing code
CodePieces == { Code_f, Code_g, Code_h, Code_assert_eq, Code_test_h, Code_no_call }

FailingCodes == { Join(pieces, S_newline) : pieces \in SeqsUpTo(CodePieces, MaxPieces) }

\* every order in which a set can be visited
Enumerations(S) ==
    { o \in [1..Cardinality(S) -> S] : \A a \in S : \E i \in 1..Cardinality(S) : o[i] = a }

\* the diagnostics a caller can hand to extract_function_code_from_traceback
GivenDiagnostics ==
    { [NewTracebackInfo(Id_test_a) EXCEPT !.source_file = sf, !.tested_function = tf] :
        sf \in { Empty, P_m_py, P_paged_py, P_bad_py, P_gone_py },
        tf \in { Empty, N_f, N_g } }

VARIABLES
    json_report,         \* the report handed to the extraction functions
    failing_code,        \* the failing_code handed to extract_tracebacks
    world,               \* the files and modules of the project
    hash_order,          \* the order in which this process visits a set of names
    traceback_info_list, \* a list handed to extract_function_code_from_traceback
    tracebacks,          \* the outcome of extract_tracebacks
    functions,           \* the outcome of extract_function_code_from_traceback
    failing_details,     \* the outcome of extract_failing_test_details
    run_details,         \* the outcome of extract_test_run_details
    lookup,              \* the arguments of a direct call of find_source_file
    found                \* the outcome of find_source_file

vars == << json_report, failing_code, world, hash_order, traceback_info_list,
           tracebacks, functions, failing_details, run_details, lookup, found >>

NotCalled == [called |-> FALSE]

\* no direct call of find_source_file is made
NoLookup == [given |-> FALSE]

\* reports of up to MaxTests cases of every outcome and shape
InitReports ==
    /\ json_report \in { Report(ReportKeys, tests) : tests \in SeqsUpTo(ReportCases, MaxTests) }
    /\ failing_code = Code_f
    /\ world = WorldOk
    /\ hash_order = << N_f >>
    /\ traceback_info_list = << >>
    /\ lookup = NoLookup

\* no report, and reports with any of the top-level keys
InitKeys ==
    /\ json_report \in { NoReport } \cup
                       { Report(keys, tests) : keys \in SUBSET ReportKeys,
                                               tests \in SeqsUpTo(MoreReportCases, 1) }
    /\ failing_code = Code_f
    /\ world = WorldOk
    /\ hash_order = << N_f >>
    /\ traceback_info_list = << >>
    /\ lookup = NoLookup

\* one failure reported in both shapes: a text traceback of up to MaxLines
\* lines and a structured traceback
InitTracebacks ==
    /\ \E lines \in SeqsUpTo(TracebackLines, MaxLines), message \in CrashMessages :
           json_report = Report(ReportKeys,
               << Test(Id_test_a, "failed",
                       Call(StrLongrepr(Join(lines, S_newline)), NoLog, Crash(3, message))),
                  Test(Id_test_a, "failed",
                       Call(DictLongrepr(message, << Entry(P_t_py, 3) >>), NoLog,
                            Crash(3, message))) >>)
    /\ failing_code = Code_f
    /\ world = WorldOk
    /\ hash_order = << N_f >>
    /\ traceback_info_list = << >>
    /\ lookup = NoLookup

\* one failing case, in either shape, with failing code of up to MaxPieces
\* statements, in every world and every visiting order
InitResolution ==
    /\ \E longrepr \in { StrLongrepr(Line_boom), DictLongrepr(Msg_boom, << >>) } :
           json_report = Report(ReportKeys,
               << Test(Id_test_b, "failed", Call(longrepr, NoLog, Crash(3, Msg_boom))) >>)
    /\ failing_code \in FailingCodes
    /\ world \in Worlds
    /\ hash_order \in Enumerations(extract_tested_functions(failing_code).names)
    /\ traceback_info_list = << >>
    /\ lookup = NoLookup

\* a list of up to MaxDiagnostics diagnostics handed to
\* extract_function_code_from_traceback
InitSnippets ==
    /\ json_report = NoReport
    /\ failing_code = Empty
    /\ world = WorldOk
    /\ hash_order = << >>
    /\ traceback_info_list \in SeqsUpTo(GivenDiagnostics, MaxDiagnostics)
    /\ lookup = NoLookup

\* one failing case with a structured traceback of up to MaxEntries location
\* entries
InitEntries ==
    /\ \E entries \in SeqsUpTo(LocationEntries, MaxEntries) :
           json_report = Report(ReportKeys,
               << Test(Id_test_a, "failed",
                       Call(DictLongrepr(Msg_boom, entries), NoLog, Crash(3, Msg_boom))) >>)
    /\ failing_code = Code_f
    /\ world = WorldOk
    /\ hash_order = << N_f >>
    /\ traceback_info_list = << >>
    /\ lookup = NoLookup

\* a direct call of find_source_file: a test file of up to MaxImports import
\* lines, or a test file that is missing or cannot be read, and a function name
InitLookup ==
    /\ json_report = NoReport
    /\ failing_code = Empty
    /\ world \in LookupWorlds
    /\ hash_order = << >>
    /\ traceback_info_list = << >>
    /\ lookup \in { [given |-> TRUE, test_path |-> Id_test_b, function |-> name] :
                      name \in { N_f, N_g, N_h } }

\* no function has been called
NothingCalled ==
    /\ tracebacks = NotCalled
    /\ functions = NotCalled
    /\ failing_details = NotCalled
    /\ run_details = NotCalled
    /\ found = NotCalled

Init ==
    \/ InitReports /\ NothingCalled
    \/ InitKeys /\ NothingCalled
    \/ InitTracebacks /\ NothingCalled
    \/ InitResolution /\ NothingCalled
    \/ InitSnippets /\ NothingCalled
    \/ InitLookup /\ NothingCalled
    \/ InitEntries /\ NothingCalled

\* tracebacks = extract_tracebacks(json_report, failing_code)
ExtractTracebacks ==
    /\ tracebacks = NotCalled
    /\ tracebacks' = [called |-> TRUE]
                     @@ extract_tracebacks(json_report, failing_code, world, hash_order)
    /\ UNCHANGED << json_report, failing_code, world, hash_order, traceback_info_list,
                    functions, failing_details, run_details, lookup, found >>

\* functions = extract_function_code_from_traceback(list), the list being the
\* given one or the one extract_tracebacks returned
ExtractFunctionCode ==
    /\ functions = NotCalled
    /\ \E list \in { traceback_info_list } \cup
                   (IF tracebacks.called /\ tracebacks.exc = "none" THEN { tracebacks.val } ELSE {}) :
           functions' = [called |-> TRUE, arg |-> list]
                        @@ extract_function_code_from_traceback(list, world)
    /\ UNCHANGED << json_report, failing_code, world, hash_order, traceback_info_list,
                    tracebacks, failing_details, run_details, lookup, found >>

\* failing_details = extract_failing_test_details(json_report)
ExtractFailingTestDetails ==
    /\ failing_details = NotCalled
    /\ failing_details' = [called |-> TRUE] @@ extract_failing_test_details(json_report)
    /\ UNCHANGED << json_report, failing_code, world, hash_order, traceback_info_list,
                    tracebacks, functions, run_details, lookup, found >>

\* run_details = extract_test_run_details(json_report)
ExtractTestRunDetails ==
    /\ run_details = NotCalled
    /\ run_details' = [called |-> TRUE] @@ extract_test_run_details(json_report)
    /\ UNCHANGED << json_report, failing_code, world, hash_order, traceback_info_list,
                    tracebacks, functions, failing_details, lookup, found >>

\* found = find_source_file(test_path, function)
FindSourceFile ==
    /\ lookup.given
    /\ found = NotCalled
    /\ found' = [called |-> TRUE] @@ Return(find_source_file(lookup.test_path, lookup.function, world))
    /\ UNCHANGED << json_report, failing_code, world, hash_order, traceback_info_list,
                    tracebacks, functions, failing_details, run_details, lookup >>

Next ==
    \/ FindSourceFile
    \/ ExtractTracebacks
    \/ ExtractFunctionCode
    \/ ExtractFailingTestDetails
    \/ ExtractTestRunDetails

Spec == Init /\ [][Next]_vars

(***************************************************************************)
(* The claims                                                              *)
(***************************************************************************)

\* extract_tracebacks has returned (it has not raised)
TracebacksReturned == tracebacks.called /\ tracebacks.exc = "none"

\* the diagnostics among the elements of a returned list
IsDiagnostic(element) == element.type = "dict"
Diagnostics(list) == SelectSeq(list, IsDiagnostic)

\* the cases of the report whose outcome is failed or error, by index
FailingIndexes(report) ==
    { i \in 1..Len(report.tests) :
        "tests" \in report.keys /\ report.tests[i].outcome \in {"failed", "error"} }

\* the report is a dict with the three required top-level keys
WellFormed(report) == ~ report.is_none /\ report.keys = {"tests", "root", "summary"}

\* C1: every diagnostic extract_tracebacks returns stands for one failed or
\* error case of the report and carries its nodeid as test_path, and the
\* diagnostics come in the order of their cases: there is a strictly
\* increasing map from the diagnostics to the failing cases of the report
\* that matches test_path with nodeid.
C1_DiagnosticsAreFailingCases ==
    TracebacksReturned =>
        LET diagnostics == Diagnostics(tracebacks.val)
        IN  \E case \in [1..Len(diagnostics) -> FailingIndexes(json_report) \cup {0}] :
                /\ \A k \in 1..Len(diagnostics) :
                       /\ case[k] \in FailingIndexes(json_report)
                       /\ diagnostics[k].test_path = json_report.tests[case[k]].nodeid
                /\ \A j, k \in 1..Len(diagnostics) : j < k => case[j] < case[k]

\* C1 witness: two diagnostics of two different cases have been returned for a
\* report
C1_Witness ==
    /\ TracebacksReturned
    /\ Len(Diagnostics(tracebacks.val)) = 2
    /\ tracebacks.val[1].test_path # tracebacks.val[2].test_path

\* C2: selection is complete: a returned list holds one diagnostic for every
\* failed or error case of the report, whatever the case carries.
C2_OneDiagnosticPerFailingCase ==
    TracebacksReturned /\ ~ ReportIsFalsy(json_report) =>
        Len(Diagnostics(tracebacks.val)) = Cardinality(FailingIndexes(json_report))

\* C3: for a report without a failed or error case (an empty case list, an
\* empty report or no report included) extract_tracebacks returns the empty
\* list: no diagnostic, no placeholder element, no error.
C3_NothingFailingGivesEmptyList ==
    tracebacks.called /\ FailingIndexes(json_report) = {} =>
        tracebacks.exc = "none" /\ tracebacks.val = << >>

\* C4: on a report that lacks one of the keys tests, root and summary (and
\* holds another) every extraction call fails, whatever else the report
\* holds, and returns no diagnostics.
C4_MissingKeyIsFatal ==
    ~ ReportIsFalsy(json_report) /\ json_report.keys # {"tests", "root", "summary"} =>
        /\ tracebacks.called => tracebacks.exc # "none"
        /\ failing_details.called => failing_details.exc # "none"
        /\ run_details.called => run_details.exc # "none"

\* C5: on a well-formed report extract_tracebacks never aborts: a case whose
\* tested function cannot be resolved (nodeid with other than one "::", test
\* module that cannot be imported, test function not found, unreadable file)
\* still leaves the call returning.
C5_OnlyMalformedReportIsFatal ==
    tracebacks.called /\ WellFormed(json_report) => tracebacks.exc = "none"

\* the case of the report the k-th element of the returned list was built from
CaseOf(k) == json_report.tests[tracebacks.idx[k]]

\* the first line of a text traceback that starts with the error marker
HasErrorLine(text) == \E i \in 1..Len(Split(text, S_newline)) : StartsWith(Split(text, S_newline)[i], S_E_marker)
FirstErrorLine(text) ==
    LET lines == Split(text, S_newline)
    IN  lines[SetMin({ i \in 1..Len(lines) : StartsWith(lines[i], S_E_marker) })]

\* C6: shape agnosticism: a text traceback whose first error-marker line is
\* "E   " + m and a structured traceback whose crash message is m give
\* diagnostics with the same error_type and the same error_message.
C6_SameErrorInBothShapes ==
    TracebacksReturned =>
        \A i, j \in 1..Len(tracebacks.val) :
            ( /\ IsDiagnostic(tracebacks.val[i]) /\ IsDiagnostic(tracebacks.val[j])
              /\ CaseOf(i).call.longrepr.type = "str"
              /\ CaseOf(j).call.longrepr.type = "dict"
              /\ HasErrorLine(CaseOf(i).call.longrepr.text)
              /\ FirstErrorLine(CaseOf(i).call.longrepr.text)
                     = S_E_marker \o CaseOf(j).call.longrepr.message )
            => /\ tracebacks.val[i].error_type = tracebacks.val[j].error_type
               /\ tracebacks.val[i].error_message = tracebacks.val[j].error_message

\* C7: the source_file of a diagnostic is empty or the path of a file that
\* defines a function named as the diagnostic's tested_function; without a
\* tested_function it is empty.
C7_SourceFileDefinesTestedFunction ==
    TracebacksReturned =>
        \A k \in 1..Len(tracebacks.val) :
            LET d == tracebacks.val[k]
            IN  IsDiagnostic(d) /\ d.source_file # Empty =>
                    /\ d.tested_function # Empty
                    /\ d.source_file \in DOMAIN world.files
                    /\ \E n \in 1..Len(world.files[d.source_file].defs) :
                           world.files[d.source_file].defs[n].name = d.tested_function

\* the call names of the failing code without the reserved prefixes, in the
\* order in which the code inserts them
FilteredCalls(code) == SelectSeq(FindCalls(code), LAMBDA name : ~ IgnoredName(name))

\* C8: tested_function is the first name, in insertion order, of the filtered
\* call names of the failing code that the failing test's body calls too, and
\* it is unset when there is no such name.
C8_TestedFunctionIsFirstCommonName ==
    TracebacksReturned =>
        \A k \in 1..Len(tracebacks.val) :
            IsDiagnostic(tracebacks.val[k]) =>
                LET filtered == FilteredCalls(failing_code)
                    body == get_called_functions_from_test(CaseOf(k).nodeid, world).val
                    common == { n \in 1..Len(filtered) : InList(filtered[n], body) }
                IN  tracebacks.val[k].tested_function
                        = IF common = {} THEN Empty ELSE filtered[SetMin(common)]

\* a line of a text traceback with an "assert ... == ..." whose operands are
\* read, and such a line one of whose operands does not evaluate
IsEqualityAssertion(line) ==
    /\ Contains(line, S_assert)
    /\ Contains(line, S_eqeq)
    /\ Len(SplitOnce(Strip(Last(Split(line, S_assert)), Whitespace), S_eqeq)) = 2

HasFailingOperand(line) ==
    LET operands == SplitOnce(Strip(Last(Split(line, S_assert)), Whitespace), S_eqeq)
    IN  \/ Eval(Strip(operands[1], ParenSpace)).exc # "none"
        \/ Eval(Strip(operands[2], ParenSpace)).exc # "none"

\* C9: in the text shape a line whose operand does not evaluate sets neither
\* actual_value nor expected_value: when every equality assertion of the
\* traceback has such an operand, both stay None.
C9_FailedEvaluationLeavesBothAbsent ==
    TracebacksReturned =>
        \A k \in 1..Len(tracebacks.val) :
            LET d == tracebacks.val[k]
                lines == Split(CaseOf(k).call.longrepr.text, S_newline)
            IN  ( /\ IsDiagnostic(d)
                  /\ CaseOf(k).call.longrepr.type = "str"
                  /\ \A n \in 1..Len(lines) :
                         IsEqualityAssertion(lines[n]) => HasFailingOperand(lines[n]) )
                => d.actual_value = None /\ d.expected_value = None

\* C10: extract_function_code_from_traceback does not raise, and every
\* diagnostic of its list with source_file and tested_function set adds one
\* element to the result (the function's lines or a one-element placeholder).
C10_OneElementPerResolvedDiagnostic ==
    ( /\ functions.called
      /\ functions.arg # << >>
      /\ \A k \in 1..Len(functions.arg) : IsDiagnostic(functions.arg[k]) )
    => /\ functions.exc = "none"
       /\ Len(functions.val)
              = Cardinality({ k \in 1..Len(functions.arg) :
                                  /\ functions.arg[k].source_file # Empty
                                  /\ functions.arg[k].tested_function # Empty })

\* the lines of a file as the parser numbers them: a form feed is white space
\* to it and ends no line
ParserLines(text) ==
    IF text # << >> /\ text[Len(text)] = "\n"
    THEN Split(SubSeq(text, 1, Len(text) - 1), S_newline)
    ELSE Split(text, S_newline)

\* the first definition of a function of that name in a file
DefinitionOf(file, name) ==
    file.defs[SetMin({ i \in 1..Len(file.defs) : file.defs[i].name = name })]

\* a diagnostic whose source_file is a readable file that defines tested_function
IsResolvedIn(w, d) ==
    /\ IsDiagnostic(d)
    /\ d.tested_function # Empty
    /\ d.source_file \in DOMAIN w.files
    /\ w.files[d.source_file].readable
    /\ w.files[d.source_file].parses
    /\ \E i \in 1..Len(w.files[d.source_file].defs) :
           w.files[d.source_file].defs[i].name = d.tested_function

\* the lines of the definition, from its first to its last, each stripped
DefinitionLines(file, name) ==
    LET node == DefinitionOf(file, name)
        lines == SubSeq(ParserLines(file.text), node.lineno, node.end_lineno)
    IN  [i \in 1..Len(lines) |-> Strip(lines[i], Whitespace)]

\* C11: for a readable file that defines tested_function, the snippet is the
\* lines of the file from the first to the last line of the definition, each
\* stripped of leading and trailing white space, so that its first line names
\* the function.
C11_SnippetIsDefinitionLines ==
    ( /\ functions.called
      /\ functions.arg # << >>
      /\ \A k \in 1..Len(functions.arg) : IsResolvedIn(world, functions.arg[k]) )
    => /\ functions.exc = "none"
       /\ functions.val = [k \in 1..Len(functions.arg) |->
                               DefinitionLines(world.files[functions.arg[k].source_file],
                                               functions.arg[k].tested_function)]

\* C12: find_source_file does not raise, and what it returns is empty or the
\* path of a file that defines the requested function; a test file that is
\* missing or cannot be read gives the empty result.
C12_AbsenceIsEmptyResult ==
    found.called
    => /\ found.exc = "none"
       /\ found.val # Empty => function_exists_in_file(found.val, lookup.function, world)

\* the module identifier of an import statement, in either form
ModuleOfImport(line) ==
    IF StartsWith(line, S_from \o S_space)
    THEN Strip(Split(DropFirst(line, 5), S_space \o S_import)[1], Whitespace)
    ELSE Strip(DropFirst(line, 7), Whitespace)

IsImportStatement(line) ==
    StartsWith(line, S_import \o S_space) \/ StartsWith(line, S_from \o S_space)

\* the candidate path of a module identifier: dots to "/", plus ".py"
CandidateOf(module) == Replace(module, S_dot, S_slash) \o S_dot_py

\* the first candidate, in file order, that defines the function
RECURSIVE FirstConfirmed(_, _, _)
FirstConfirmed(lines, function, w) ==
    IF lines = << >> THEN Empty
    ELSE IF /\ IsImportStatement(Head(lines))
            /\ ModuleOfImport(Head(lines)) # S_pytest
            /\ function_exists_in_file(CandidateOf(ModuleOfImport(Head(lines))), function, w)
    THEN CandidateOf(ModuleOfImport(Head(lines)))
    ELSE FirstConfirmed(Tail(lines), function, w)

TestFileOf(test_path) == Split(test_path, S_coloncolon)[1]

TestFileIsReadable ==
    /\ TestFileOf(lookup.test_path) \in DOMAIN world.files
    /\ world.files[TestFileOf(lookup.test_path)].readable

\* C13: find_source_file returns the first candidate, in the order of the
\* import statements of the test file, that defines the requested function;
\* the candidate of "import module" and of "from module import name" is the
\* module identifier with "/" for its dots and ".py" added, pytest left out.
C13_FirstConfirmedCandidate ==
    ( found.called /\ TestFileIsReadable )
    => /\ found.exc = "none"
       /\ found.val = FirstConfirmed(ParserLines(world.files[TestFileOf(lookup.test_path)].text),
                                     lookup.function, world)

IsLocationLine(line) == Contains(line, S_File_space) /\ Contains(line, S_comma_line)

\* the lines of a text traceback that hold a location, in line order, stripped
LocationLines(text) ==
    LET hits == SelectSeq(Split(text, S_newline), IsLocationLine)
    IN  [n \in 1..Len(hits) |-> Strip(hits[n], Whitespace)]

\* one frame for each location entry, in entry order
FramesOf(entries) ==
    [n \in 1..Len(entries) |->
        S_File_space \o entries[n].path \o S_comma_line \o IntToStr(entries[n].lineno)]

\* C14: stack_trace is complete and in discovery order: for a text traceback
\* it holds the lines with both "File " and ", line ", in line order; for a
\* structured traceback it holds one "File <path>, line <n>" frame for each
\* location entry, in entry order, whatever the path and the line number.
C14_StackTraceIsCompleteAndOrdered ==
    TracebacksReturned =>
        \A k \in 1..Len(tracebacks.val) :
            IsDiagnostic(tracebacks.val[k]) =>
                /\ CaseOf(k).call.longrepr.type = "str"
                       => tracebacks.val[k].stack_trace = LocationLines(CaseOf(k).call.longrepr.text)
                /\ CaseOf(k).call.longrepr.type = "dict"
                       => tracebacks.val[k].stack_trace = FramesOf(CaseOf(k).call.longrepr.entries)

\* the orders in which a process can visit the candidate names of the failing
\* code (the hash seed of the process decides which)
VisitingOrders == Enumerations(extract_tested_functions(failing_code).names)

\* the report that holds the case of a diagnostic alone
ReportOfCase(k) == [json_report EXCEPT !.tests = << CaseOf(k) >>]

\* C15: extraction is a function of the report, the failing code and the
\* files: whatever the process, extract_tracebacks returns the same list for
\* them, and the diagnostic of a failing case is the one the case gives when
\* it is alone in the report.
C15_ResultIsFunctionOfInputs ==
    TracebacksReturned =>
        /\ \A order \in VisitingOrders :
               /\ extract_tracebacks(json_report, failing_code, world, order).exc = "none"
               /\ extract_tracebacks(json_report, failing_code, world, order).val = tracebacks.val
        /\ \A k \in 1..Len(tracebacks.val) :
               IsDiagnostic(tracebacks.val[k]) =>
                   extract_tracebacks(ReportOfCase(k), failing_code, world, hash_order).val
                       = << tracebacks.val[k] >>

\* a name with one of the reserved prefixes
HasReservedPrefix(name) ==
    \/ Len(name) >= 6 /\ SubSeq(name, 1, 6) = S_assert
    \/ Len(name) >= 5 /\ SubSeq(name, 1, 5) = S_test_

\* the candidates the callers of extract_tested_functions visit
Candidates == Visits(extract_tested_functions(failing_code), hash_order)

\* C16: the reserved-prefix filter holds on every output: no candidate name
\* that extract_tested_functions gives, and no tested_function of a
\* diagnostic, starts with "assert" or "test_".
C16_NoReservedPrefix ==
    tracebacks.called =>
        /\ \A n \in 1..Len(Candidates) : ~ HasReservedPrefix(Candidates[n])
        /\ tracebacks.exc = "none" =>
               \A k \in 1..Len(tracebacks.val) :
                   IsDiagnostic(tracebacks.val[k])
                       => ~ HasReservedPrefix(tracebacks.val[k].tested_function)

\* the failing code calls an assertion helper and a function, the test calls
\* both, and the diagnostic names the function
C16_Witness ==
    /\ TracebacksReturned
    /\ Len(tracebacks.val) = 1
    /\ IsDiagnostic(tracebacks.val[1])
    /\ tracebacks.val[1].tested_function # Empty
    /\ \E n \in 1..Len(FindCalls(failing_code)) :
           /\ HasReservedPrefix(FindCalls(failing_code)[n])
           /\ InList(FindCalls(failing_code)[n],
                     get_called_functions_from_test(CaseOf(1).nodeid, world).val)

IsFailed(test) == test.outcome = "failed"

\* the cases of the report whose outcome is failed, in report order
FailedCases == SelectSeq(json_report.tests, IsFailed)

FailingDetailsReturned == failing_details.called /\ failing_details.exc = "none"

====
